---- MODULE Spec2Model ----
(***************************************************************************)
(* Token verification and JWKS caching of app/cognito_utils.py.            *)
(*                                                                         *)
(* The file binds every module-level name twice: lines 15-144 and again    *)
(* lines 161-275.  Python executes the file top to bottom, so once the     *)
(* module is loaded the names COGNITO_*, JWKS_URL, jwks_cache,             *)
(* get_cognito_public_keys and verify_cognito_token refer to the objects   *)
(* built by the second block.  The model is the module as loaded.          *)
(*                                                                         *)
(* Library calls are modelled by what the libraries do:                    *)
(*   cachetools.TTLCache / cached  (cachetools >= 5.0: an entry is         *)
(*       expired as soon as  not (timer() < expires)),                     *)
(*   jose.jwt.get_unverified_headers / jose.jwt.decode  (python-jose 3.x), *)
(*   requests.get / raise_for_status / json.                               *)
(* time.monotonic() of the cache and the UTC clock of jose are one clock.  *)
(* The entries of a fetched "keys" list are well formed: each carries a    *)
(* kid and RSA parameters from which jwk.construct builds a public key.    *)
(***************************************************************************)
EXTENDS Integers, Sequences, FiniteSets, TLC

\* ---------------------------------------------------------------- constants

\* TTLCache(maxsize=1, ttl=3600)
TTL == 3600
MAXSIZE == 1
\* options={..., "leeway": 60}
LEEWAY == 60

\* ------------------------------------------------------------------- bounds

\* the clock is observed around the multiples 0 .. MaxEpoch of the TTL
MaxEpoch == 1
\* a submitted token differs from a valid one in at most this many fields
MaxDeviations == 2
\* callers inside get_cognito_public_keys at the same time
MaxCallers == 2

\* --------------------------------------------------------------- value sets

\* os.getenv(...) of a variable that is not set
None == "None"
\* a claim that the token payload does not carry
Absent == "absent"
\* a numeric claim that the token payload does not carry
NoTime == 0 - 1

PoolId == "ap-northeast-1_pool"
Region == "ap-northeast-1"
ClientId == "client-1"

\* instants at which the clock is read: each multiple of TTL and the second before it
TimePoints == {t \in {k * TTL + d : k \in 0..MaxEpoch, d \in {0 - 1, 0}} : t >= 0}

\* signing keys published by the user pool: kid and key material
KeyA == [kid |-> "kid-1", mat |-> "rsa-1"]
KeyB == [kid |-> "kid-2", mat |-> "rsa-2"]
Keys == {KeyA, KeyB}
\* the "keys" lists the JWKS endpoint can answer with
KeySets == {<< >>, <<KeyA>>, <<KeyB>>, <<KeyB, KeyA>>}

\* outcomes of requests.get(...); raise_for_status(); response.json()["keys"]
Responses ==
    {[kind |-> "ok", keys |-> ks] : ks \in KeySets}
    \cup {[kind |-> "RequestException", keys |-> << >>],
          [kind |-> "NoKeysMember", keys |-> << >>]}

\* the answer named when a call makes no request
NoResponse == [kind |-> "RequestException", keys |-> << >>]

\* the issuer URL of a user pool
IssuerOf(region, pool) == <<"https://cognito-idp.", region, ".amazonaws.com/", pool>>

\* ------------------------------------------------------------------- tokens

\* raw: "" (empty string), None (no token), "garbage" (no parsable JWT header),
\*      "jwt" (three segments with a JSON header and payload)
Raws == {"", None, "garbage", "jwt"}

\* a token an honest client of the pool holds: signed by KeyA, access token
BaseToken ==
    [raw |-> "jwt", kid |-> "kid-1", alg |-> "RS256", sig |-> "rsa-1",
     iat |-> "int", nbf |-> 0, exp |-> (MaxEpoch + 2) * TTL,
     aud |-> ClientId, iss |-> IssuerOf(Region, PoolId), token_use |-> "access"]

\* the values a submitted token can carry in each field
KidValues == {"kid-1", "kid-2", Absent}
AlgValues == {"RS256", "HS256"}
SigValues == {"rsa-1", "rsa-2"}
IatValues == {"int", "not-int"}
NbfValues == {0, TTL + LEEWAY}
ExpValues == {TTL - LEEWAY - 1, TTL - LEEWAY, (MaxEpoch + 2) * TTL, NoTime}
AudValues == {ClientId, "client-other", Absent}
IssValues == {IssuerOf(Region, PoolId), IssuerOf(Region, "other-pool")}
UseValues == {"access", "id"}

\* the tokens that differ from t in at most one field
OneFieldFrom(t) ==
    {[t EXCEPT !.kid = v] : v \in KidValues}
    \cup {[t EXCEPT !.alg = v] : v \in AlgValues}
    \cup {[t EXCEPT !.sig = v] : v \in SigValues}
    \cup {[t EXCEPT !.iat = v] : v \in IatValues}
    \cup {[t EXCEPT !.nbf = v] : v \in NbfValues}
    \cup {[t EXCEPT !.exp = v] : v \in ExpValues}
    \cup {[t EXCEPT !.aud = v] : v \in AudValues}
    \cup {[t EXCEPT !.iss = v] : v \in IssValues}
    \cup {[t EXCEPT !.token_use = v] : v \in UseValues}

RECURSIVE Within(_)
\* the JWTs that differ from BaseToken in at most n fields
Within(n) ==
    IF n = 0 THEN {BaseToken}
    ELSE UNION {OneFieldFrom(t) : t \in Within(n - 1)}

\* the tokens a caller submits: JWTs near a valid one, and the three non-JWTs
Tokens ==
    Within(MaxDeviations)
    \cup {[BaseToken EXCEPT !.raw = r] : r \in {"", None, "garbage"}}

TokenUses == {"access", "id"}

\* placeholder of the token field for a call that takes no token
NoToken == [BaseToken EXCEPT !.raw = "n/a"]

\* ------------------------------------------------------------------- state

VARIABLES
    COGNITO_USER_POOL_ID,   \* os.getenv("COGNITO_USER_POOL_ID")
    COGNITO_REGION,         \* os.getenv("COGNITO_REGION")
    COGNITO_APP_CLIENT_ID,  \* os.getenv("COGNITO_APP_CLIENT_ID")
    jwks_cache,             \* TTLCache(maxsize=1, ttl=3600): sequence of entries
    now,                    \* the clock, in seconds
    last,                   \* the call that has just returned, or Idle
    http,                   \* the request a dependency of main_app.py has just answered
    callers                 \* the position of each concurrent caller of the key cache

config == <<COGNITO_USER_POOL_ID, COGNITO_REGION, COGNITO_APP_CLIENT_ID>>
vars == <<COGNITO_USER_POOL_ID, COGNITO_REGION, COGNITO_APP_CLIENT_ID, jwks_cache, now, last,
          http, callers>>

\* JWKS_URL = f"https://cognito-idp.{COGNITO_REGION}.amazonaws.com/{COGNITO_USER_POOL_ID}/.well-known/jwks.json"
\* (an f-string: None is formatted as the text "None", the URL is never falsy)
JWKS_URL ==
    <<"https://cognito-idp.", COGNITO_REGION, ".amazonaws.com/",
      COGNITO_USER_POOL_ID, "/.well-known/jwks.json">>

\* Python truthiness of an environment value
Truthy(v) == v # None /\ v # ""

NoResult == [kind |-> "none", log |-> "none", claims |-> << >>]

Idle ==
    [op |-> "idle", token |-> NoToken, token_use |-> "n/a", at |-> 0,
     before |-> << >>, hit |-> FALSE, fetches |-> 0, fetched |-> << >>,
     keys |-> << >>, decoded |-> FALSE, result |-> NoResult,
     response |-> "none", prev |-> NoResult]

\* no request is being answered
NoRequest ==
    [dep |-> "none", oidc |-> NoToken, scheme |-> "n/a", credentials |-> NoToken,
     username |-> FALSE, called |-> FALSE, token |-> NoToken, status |-> 0,
     reached |-> FALSE]

\* the callers that share the key cache
Callers == 1..MaxCallers
\* a caller that is not inside get_cognito_public_keys
CallerIdle == [pc |-> "idle", value |-> << >>, handed |-> << >>, hit |-> FALSE]
\* no caller is inside get_cognito_public_keys and no fetch has completed
NoCallers == [proc |-> [p \in Callers |-> CallerIdle], completed |-> {}]

\* --------------------------------------------------- cachetools.TTLCache

\* variant: the entry is still served at the instant it expires
CacheHit_ServedAtExpiry(cache, t) == Len(cache) = 1 /\ t <= cache[1].expires

\* variant: the entry stops being served one second early
CacheHit_OneSecondEarly(cache, t) == Len(cache) = 1 /\ t + 1 < cache[1].expires

\* variant: no stored entry is ever served
CacheHit_Never(cache, t) == FALSE

\* TTLCache.__getitem__: the entry is served while timer() < expires
CacheHit(cache, t) == Len(cache) = 1 /\ t < cache[1].expires

\* variant: the entry is stored without its time to live
CacheStore_NoTtl(cache, value, t) == <<[value |-> value, expires |-> t]>>

\* variant: a store into an occupied slot appends to the stored key set
CacheStore_Merge(cache, value, t) ==
    IF Len(cache) = 1
    THEN <<[value |-> cache[1].value \o value, expires |-> t + TTL]>>
    ELSE <<[value |-> value, expires |-> t + TTL]>>

\* TTLCache.__setitem__ at time t: expired entries are dropped, the value is
\* stored under the one key of a function without arguments, and the cache is
\* trimmed to maxsize
CacheStore(cache, value, t) ==
    LET kept == SelectSeq(cache, LAMBDA e : FALSE)
        full == Append(kept, [value |-> value, expires |-> t + TTL])
    IN  IF Len(full) > MAXSIZE THEN SubSeq(full, Len(full) - MAXSIZE + 1, Len(full)) ELSE full

\* --------------------------------------------- get_cognito_public_keys

\* variant: a failed request is answered with an empty key list
FetchKeys_EmptyOnError(resp) ==
    IF ~(Truthy(COGNITO_USER_POOL_ID) /\ Truthy(COGNITO_REGION))
    THEN [exc |-> "Configuration", log |-> "error", fetches |-> 0, keys |-> << >>]
    ELSE IF resp.kind = "RequestException"
    THEN [exc |-> "", log |-> "error", fetches |-> 1, keys |-> <<(<< >>)>>]
    ELSE IF resp.kind = "NoKeysMember"
    THEN [exc |-> "KeyError", log |-> "info", fetches |-> 1, keys |-> << >>]
    ELSE [exc |-> "", log |-> "info", fetches |-> 1, keys |-> <<resp.keys>>]

\* The body of get_cognito_public_keys (lines 178-188), run on a cache miss:
\* the configuration test, the HTTP GET and response.json()["keys"].
\* exc is the exception that leaves the function, "" when it returns.
FetchKeys(resp) ==
    IF ~(Truthy(COGNITO_USER_POOL_ID) /\ Truthy(COGNITO_REGION))
    THEN [exc |-> "Configuration", log |-> "error", fetches |-> 0, keys |-> << >>]
    ELSE IF resp.kind = "RequestException"
    THEN [exc |-> "KeyFetch", log |-> "error", fetches |-> 1, keys |-> << >>]
    ELSE IF resp.kind = "NoKeysMember"
    THEN [exc |-> "KeyError", log |-> "info", fetches |-> 1, keys |-> << >>]
    ELSE [exc |-> "", log |-> "info", fetches |-> 1, keys |-> <<resp.keys>>]

\* variant: a hit stores the served key set again, which renews its expiry
get_cognito_public_keys_TouchOnHit(cache, t0, resp, t1) ==
    IF CacheHit(cache, t0)
    THEN [exc |-> "", log |-> "none", fetches |-> 0, hit |-> TRUE,
          keys |-> <<cache[1].value>>, fetched |-> << >>,
          cache |-> CacheStore(cache, cache[1].value, t0), t |-> t0]
    ELSE LET f == FetchKeys(resp) IN
         [exc |-> f.exc, log |-> f.log, fetches |-> f.fetches, hit |-> FALSE,
          keys |-> f.keys, fetched |-> f.keys,
          cache |-> IF f.exc = "" THEN CacheStore(cache, f.keys[1], t1) ELSE cache,
          t |-> IF f.fetches = 0 THEN t0 ELSE t1]

\* @cached(jwks_cache) around the body: the call starts at t0; on a miss the
\* body runs and its return value is stored at t1; an exception stores nothing.
get_cognito_public_keys(cache, t0, resp, t1) ==
    IF CacheHit(cache, t0)
    THEN [exc |-> "", log |-> "none", fetches |-> 0, hit |-> TRUE,
          keys |-> <<cache[1].value>>, fetched |-> << >>, cache |-> cache, t |-> t0]
    ELSE LET f == FetchKeys(resp) IN
         [exc |-> f.exc, log |-> f.log, fetches |-> f.fetches, hit |-> FALSE,
          keys |-> f.keys, fetched |-> f.keys,
          cache |-> IF f.exc = "" THEN CacheStore(cache, f.keys[1], t1) ELSE cache,
          t |-> IF f.fetches = 0 THEN t0 ELSE t1]

\* ------------------------------------------------------------ python-jose

\* jwt.get_unverified_headers(token): JWTError unless the header parses
HeaderParses(token) == token.raw = "jwt"

\* variant: the first key of the set is taken whatever its kid
KeyIndex_FirstKey(public_keys, kid) == IF Len(public_keys) = 0 THEN 0 ELSE 1

\* next((key for key in public_keys if key["kid"] == kid), None)
KeyIndex(public_keys, kid) ==
    LET hits == {i \in 1..Len(public_keys) : public_keys[i].kid = kid}
    IN  IF hits = {} THEN 0 ELSE CHOOSE i \in hits : \A j \in hits : i <= j

\* variant: the algorithm named by the token header is not restricted
SignatureOk_AnyAlg(token, key) == token.sig = key.mat

\* jws.verify(token, key, algorithms=["RS256"])
SignatureOk(token, key) == token.alg \in {"RS256"} /\ token.sig = key.mat

\* variant: the expiry is compared without the leeway
ExpCheckOk_NoLeeway(token, t) == token.exp = NoTime \/ ~(token.exp < t)

\* _validate_exp: ExpiredSignatureError when exp < now - leeway
ExpCheckOk(token, t) == token.exp = NoTime \/ ~(token.exp < t - LEEWAY)

\* _validate_nbf: JWTClaimsError when nbf > now + leeway
NbfCheckOk(token, t) == ~(token.nbf > t + LEEWAY)

\* variant: the audience is not compared
AudCheckOk_Skipped(token, audience) == TRUE

\* _validate_aud: a payload without aud passes; otherwise aud must be audience
AudCheckOk(token, audience) == token.aud = Absent \/ token.aud = audience

\* _validate_iss: the iss claim must be the issuer
IssCheckOk(token, issuer) == token.iss = issuer

\* jwt.decode(token, pem, algorithms=["RS256"], audience=..., issuer=...,
\*            options={verify_exp, verify_nbf, verify_iat, leeway: 60}) at time t:
\* the exception class raised, "" when the claims are returned
JwtDecode(token, key, audience, issuer, t) ==
    IF ~SignatureOk(token, key) THEN "JWTError"
    ELSE IF token.iat # "int" THEN "JWTClaimsError"
    ELSE IF ~NbfCheckOk(token, t) THEN "JWTClaimsError"
    ELSE IF ~ExpCheckOk(token, t) THEN "ExpiredSignatureError"
    ELSE IF ~AudCheckOk(token, audience) THEN "JWTClaimsError"
    ELSE IF ~IssCheckOk(token, issuer) THEN "JWTClaimsError"
    ELSE ""

\* the payload of a token, as jwt.decode returns it
ClaimsOf(token) ==
    [iat |-> token.iat, nbf |-> token.nbf, exp |-> token.exp, aud |-> token.aud,
     iss |-> token.iss, token_use |-> token.token_use]

\* ------------------------------------------------- verify_cognito_token

Raise(kind, log) == [kind |-> kind, log |-> log, claims |-> << >>]

\* variant: only None counts as no token
IsEmptyToken_NoneOnly(token) == token.raw = None

\* "if not token": the empty string and None are falsy
IsEmptyToken(token) == token.raw \in {"", None}

\* lines 230-268: the try block around jwk.construct, jwt.decode and the
\* token_use test, with its except clauses in order
DecodeAndCheck(token, token_use, key, t) ==
    LET e == JwtDecode(token, key, COGNITO_APP_CLIENT_ID,
                       IssuerOf(COGNITO_REGION, COGNITO_USER_POOL_ID), t)
    IN  IF e = "ExpiredSignatureError" THEN Raise("Expired", "warning")
        ELSE IF e = "JWTClaimsError" THEN Raise("ClaimValidation", "warning")
        ELSE IF e = "JWTError" THEN Raise("InvalidToken", "warning")
        ELSE IF token.token_use # token_use
             \* raise ValueError(...) inside the try: caught by "except Exception"
             THEN Raise("Unexpected", "error")
        ELSE [kind |-> "claims", log |-> "info", claims |-> <<ClaimsOf(token)>>]

\* variant: the retry that lines 223-227 keep commented out: the cache is
\* cleared and the key set fetched a second time before the call gives up
KidMiss_ClearAndRetry(got) ==
    [got EXCEPT !.cache = << >>, !.fetches = @ + 1]
    @@ [result |-> Raise("UnknownKey", "warning")]

\* lines 221-228: no key of the set carries the kid of the token
KidMiss(got) == got @@ [result |-> Raise("UnknownKey", "warning")]

\* lines 205-268: one call, started at t0 with the cache as given; resp and t1
\* are the answer of the JWKS endpoint and the time it arrives, used on a miss
verify_cognito_token(token, token_use, cache, t0, resp, t1) ==
    LET none == [fetches |-> 0, hit |-> FALSE, fetched |-> << >>, keys |-> << >>,
                 cache |-> cache, t |-> t0, decoded |-> FALSE]
    IN
    IF IsEmptyToken(token)
    THEN none @@ [result |-> Raise("EmptyToken", "none")]
    ELSE
    LET g == get_cognito_public_keys(cache, t0, resp, t1)
        got == [fetches |-> g.fetches, hit |-> g.hit, fetched |-> g.fetched,
                keys |-> g.keys, cache |-> g.cache, t |-> g.t, decoded |-> FALSE]
    IN
    IF g.exc # "" THEN got @@ [result |-> Raise(g.exc, g.log)]
    ELSE IF ~HeaderParses(token) THEN got @@ [result |-> Raise("MalformedHeader", "warning")]
    ELSE IF token.kid = Absent THEN got @@ [result |-> Raise("MissingKid", g.log)]
    ELSE
    LET i == KeyIndex(g.keys[1], token.kid) IN
    IF i = 0 THEN KidMiss(got)
    ELSE [got EXCEPT !.decoded = TRUE]
         @@ [result |-> DecodeAndCheck(token, token_use, g.keys[1][i], g.t)]

\* ---------------------------------------------------------------- actions

\* seconds an HTTP GET takes to answer or fail
FetchSeconds == {0, 1}
\* the instants at which an HTTP GET started at t can have returned
FetchTimes(t) == {u \in TimePoints : u - t \in FetchSeconds}

Init ==
    /\ COGNITO_USER_POOL_ID \in {None, PoolId}
    /\ COGNITO_REGION \in {None, Region}
    /\ COGNITO_APP_CLIENT_ID \in {None, ClientId}
    /\ jwks_cache = << >>
    /\ now = 0
    /\ last = Idle
    /\ http = NoRequest
    /\ callers = NoCallers

\* what is observed of a call r of verify_cognito_token, made in the current
\* state; prev is the result of the call it repeats, NoResult otherwise
CallRecord(r, token, token_use, resp, prev) ==
    [op |-> "verify", token |-> token, token_use |-> token_use, at |-> now,
     before |-> jwks_cache, hit |-> r.hit, fetches |-> r.fetches,
     fetched |-> r.fetched, keys |-> r.keys, decoded |-> r.decoded,
     result |-> r.result,
     response |-> IF r.fetches = 0 THEN "none" ELSE resp.kind, prev |-> prev]

\* a request handler calls verify_cognito_token(token, token_use)
Verify ==
    /\ last.op = "idle"
    /\ \E token \in Tokens, token_use \in TokenUses, resp \in Responses, t1 \in FetchTimes(now) :
        LET r == verify_cognito_token(token, token_use, jwks_cache, now, resp, t1) IN
        /\ r.fetches = 0 => (resp = NoResponse /\ t1 = now)
        /\ jwks_cache' = r.cache
        /\ now' = r.t
        /\ last' = CallRecord(r, token, token_use, resp, NoResult)
    /\ UNCHANGED <<config, http, callers>>

\* a caller whose call was answered from a key set submits the same token
\* again at once (a call that got no key set is repeated through Return and
\* Verify)
Reverify ==
    /\ last.op = "verify"
    /\ last.prev = NoResult
    /\ last.keys # << >>
    /\ \E resp \in Responses, t1 \in FetchTimes(now) :
        LET r == verify_cognito_token(last.token, last.token_use, jwks_cache, now, resp, t1) IN
        /\ r.fetches = 0 => (resp = NoResponse /\ t1 = now)
        /\ jwks_cache' = r.cache
        /\ now' = r.t
        /\ last' = CallRecord(r, last.token, last.token_use, resp, last.result)
    /\ UNCHANGED <<config, http, callers>>

\* a caller calls get_cognito_public_keys() directly
GetKeys ==
    /\ last.op = "idle"
    /\ \E resp \in Responses, t1 \in FetchTimes(now) :
        LET g == get_cognito_public_keys(jwks_cache, now, resp, t1) IN
        /\ g.fetches = 0 => (resp = NoResponse /\ t1 = now)
        /\ jwks_cache' = g.cache
        /\ now' = g.t
        /\ last' = [op |-> "get_keys", token |-> NoToken, token_use |-> "n/a", at |-> now,
                    before |-> jwks_cache, hit |-> g.hit, fetches |-> g.fetches,
                    fetched |-> g.fetched, keys |-> g.keys, decoded |-> FALSE,
                    result |-> IF g.exc = "" THEN [kind |-> "keys", log |-> g.log, claims |-> << >>]
                                ELSE Raise(g.exc, g.log),
                    response |-> IF g.fetches = 0 THEN "none" ELSE resp.kind,
                    prev |-> NoResult]
    /\ UNCHANGED <<config, http, callers>>

\* the caller takes the result; the process is ready for the next call
Return ==
    /\ last.op # "idle"
    /\ last' = Idle
    /\ UNCHANGED <<config, jwks_cache, now, http, callers>>

\* time passes between calls
Tick ==
    /\ last.op = "idle"
    /\ \E t \in TimePoints : t > now /\ now' = t
    /\ UNCHANGED <<config, jwks_cache, last, http, callers>>

Next == Verify \/ Reverify \/ GetKeys \/ Return \/ Tick

Spec == Init /\ [][Next]_vars


\* ---- concurrent callers of get_cognito_public_keys ----

\* the answers of the JWKS endpoint while callers overlap
RaceResponses ==
    {[kind |-> "ok", keys |-> <<KeyA>>], [kind |-> "ok", keys |-> <<KeyB>>],
     [kind |-> "RequestException", keys |-> << >>]}

\* cache[k] of the cached wrapper: a hit returns the stored value
Lookup(p) ==
    /\ callers.proc[p].pc = "idle"
    /\ callers' =
        IF CacheHit(jwks_cache, now)
        THEN [callers EXCEPT !.proc[p] =
                 [pc |-> "returned", value |-> << >>, handed |-> <<jwks_cache[1].value>>,
                  hit |-> TRUE]]
        ELSE [callers EXCEPT !.proc[p].pc = "miss"]
    /\ UNCHANGED <<config, jwks_cache, now, last, http>>

\* the body of get_cognito_public_keys, run after a miss
Fetch(p) ==
    /\ callers.proc[p].pc = "miss"
    /\ \E resp \in RaceResponses :
        LET f == FetchKeys(resp) IN
        callers' =
            IF f.exc # ""
            THEN [callers EXCEPT !.proc[p].pc = "raised"]
            ELSE [callers EXCEPT !.proc[p].pc = "fetched", !.proc[p].value = f.keys,
                                 !.completed = @ \cup {f.keys[1]}]
    /\ UNCHANGED <<config, jwks_cache, now, last, http>>

\* cache[k] = v of the cached wrapper, then return v
Store(p) ==
    /\ callers.proc[p].pc = "fetched"
    /\ jwks_cache' = CacheStore(jwks_cache, callers.proc[p].value[1], now)
    /\ callers' = [callers EXCEPT !.proc[p].pc = "returned",
                                  !.proc[p].handed = callers.proc[p].value]
    /\ UNCHANGED <<config, now, last, http>>

\* the caller has its key set or its exception and leaves
Leave(p) ==
    /\ callers.proc[p].pc \in {"returned", "raised"}
    /\ callers' = [callers EXCEPT !.proc[p] = CallerIdle]
    /\ UNCHANGED <<config, jwks_cache, now, last, http>>

\* time passes while callers are under way
Elapse ==
    /\ \E t \in TimePoints : t > now /\ now' = t
    /\ UNCHANGED <<config, jwks_cache, last, http, callers>>

NextRace ==
    \/ \E p \in Callers : Lookup(p)
    \/ \E p \in Callers : Fetch(p)
    \/ \E p \in Callers : Store(p)
    \/ \E p \in Callers : Leave(p)
    \/ Elapse

SpecRace == Init /\ [][NextRace]_vars

\* ---- the request dependencies of main_app.py ----

\* the values of the x-amzn-oidc-accesstoken header: absent (None), empty,
\* or a token that differs from a valid one in at most one field
OidcHeaders == Within(1) \cup {[BaseToken EXCEPT !.raw = r] : r \in {"", None, "garbage"}}
\* a second valid-looking token, signed with the other key
OtherToken == [BaseToken EXCEPT !.kid = "kid-2", !.sig = "rsa-2"]
\* the values of the Authorization header: absent, another scheme, or Bearer
\* followed by credentials
Schemes == {Absent, "Basic", "Bearer"}
Credentials == {BaseToken, OtherToken, [BaseToken EXCEPT !.raw = ""]}
AuthHeaders ==
    {[scheme |-> Absent, credentials |-> NoToken], [scheme |-> "Basic", credentials |-> BaseToken]}
    \cup {[scheme |-> "Bearer", credentials |-> c] : c \in Credentials}

\* the token get_current_user_claims takes from the request
ClaimsToken(oidc, auth) ==
    IF ~IsEmptyToken(oidc) THEN oidc
    ELSE IF auth.scheme = "Bearer" /\ ~IsEmptyToken(auth.credentials) THEN auth.credentials
    ELSE [BaseToken EXCEPT !.raw = None]

\* what OAuth2PasswordBearer(auto_error=False) hands over
oauth2_scheme_cognito(auth) ==
    IF auth.scheme = "Bearer" THEN auth.credentials ELSE [BaseToken EXCEPT !.raw = None]
\* the token get_current_user_from_cognito takes from the request
CognitoToken(oidc, auth) ==
    IF ~IsEmptyToken(oauth2_scheme_cognito(auth)) THEN oauth2_scheme_cognito(auth) ELSE oidc

\* the exceptions of verify_cognito_token that are ValueError
ValueErrors ==
    {"EmptyToken", "Configuration", "KeyFetch", "MalformedHeader", "MissingKid", "UnknownKey",
     "Expired", "ClaimValidation", "InvalidToken", "Unexpected"}

\* the status get_current_user_claims answers for the outcome of the verification
ClaimsStatus(kind) ==
    IF kind = "claims" THEN 200
    ELSE IF kind \in ValueErrors THEN 401
    ELSE 500

\* the status get_current_user_from_cognito answers
CognitoStatus(kind, username) ==
    IF kind = "claims" /\ username THEN 200 ELSE 401

\* the record of a request whose dependency found no token
Unauthenticated(dep, oidc, auth) ==
    [dep |-> dep, oidc |-> oidc, scheme |-> auth.scheme, credentials |-> auth.credentials,
     username |-> FALSE, called |-> FALSE, token |-> NoToken, status |-> 401,
     reached |-> FALSE]

\* the record of a request whose dependency called verify_cognito_token
Answered(dep, oidc, auth, token, username, status) ==
    [dep |-> dep, oidc |-> oidc, scheme |-> auth.scheme, credentials |-> auth.credentials,
     username |-> username, called |-> TRUE, token |-> token, status |-> status,
     reached |-> status = 200]

get_current_user_claims ==
    /\ http.dep = "none"
    /\ last.op = "idle"
    /\ \E oidc \in OidcHeaders, auth \in AuthHeaders :
        LET token == ClaimsToken(oidc, auth) IN
        IF IsEmptyToken(token)
        THEN /\ http' = Unauthenticated("get_current_user_claims", oidc, auth)
             /\ UNCHANGED <<jwks_cache, now, last>>
        ELSE \E resp \in Responses, t1 \in FetchTimes(now) :
            LET r == verify_cognito_token(token, "access", jwks_cache, now, resp, t1) IN
            /\ r.fetches = 0 => (resp = NoResponse /\ t1 = now)
            /\ jwks_cache' = r.cache
            /\ now' = r.t
            /\ last' = CallRecord(r, token, "access", resp, NoResult)
            /\ http' = Answered("get_current_user_claims", oidc, auth, token, TRUE,
                                ClaimsStatus(r.result.kind))
    /\ UNCHANGED <<config, callers>>

get_current_user_from_cognito ==
    /\ http.dep = "none"
    /\ last.op = "idle"
    /\ \E oidc \in OidcHeaders, auth \in AuthHeaders :
        LET actual_token == CognitoToken(oidc, auth) IN
        IF IsEmptyToken(actual_token)
        THEN /\ http' = Unauthenticated("get_current_user_from_cognito", oidc, auth)
             /\ UNCHANGED <<jwks_cache, now, last>>
        ELSE \E resp \in Responses, t1 \in FetchTimes(now), username \in BOOLEAN :
            LET r == verify_cognito_token(actual_token, "access", jwks_cache, now, resp, t1) IN
            /\ r.fetches = 0 => (resp = NoResponse /\ t1 = now)
            /\ r.result.kind # "claims" => username
            /\ jwks_cache' = r.cache
            /\ now' = r.t
            /\ last' = CallRecord(r, actual_token, "access", resp, NoResult)
            /\ http' = Answered("get_current_user_from_cognito", oidc, auth, actual_token,
                                username, CognitoStatus(r.result.kind, username))
    /\ UNCHANGED <<config, callers>>

\* the response is sent: the request is over
Respond ==
    /\ http.dep # "none"
    /\ http' = NoRequest
    /\ last' = Idle
    /\ UNCHANGED <<config, jwks_cache, now, callers>>

\* time passes between two requests
Wait ==
    /\ http.dep = "none"
    /\ Tick

NextApp == get_current_user_claims \/ get_current_user_from_cognito \/ Respond \/ Wait

SpecApp == Init /\ [][NextApp]_vars


\* ----------------------------------------------------------------- claims

\* a call of verify_cognito_token has just returned or raised
Verified == last.op = "verify"
\* a call has just consulted the key cache
Consulted ==
    \/ last.op = "get_keys"
    \/ last.op = "verify" /\ last.token.raw \notin {"", None}
\* all three environment values are set
ConfigComplete ==
    /\ Truthy(COGNITO_USER_POOL_ID)
    /\ Truthy(COGNITO_REGION)
    /\ Truthy(COGNITO_APP_CLIENT_ID)
\* the keys of the key set handed to the last call whose kid is the token's
MatchingKeys ==
    IF Len(last.keys) = 1
    THEN {last.keys[1][i] : i \in {j \in 1..Len(last.keys[1]) : last.keys[1][j].kid = last.token.kid}}
    ELSE {}
\* the cache entry the last call found had reached its expiry time
FoundExpired == Len(last.before) = 1 /\ last.at >= last.before[1].expires

\* C1: verify_cognito_token returns claims only if the token was non-empty, the
\* configuration was complete, the header kid is the kid of a key of the key
\* set returned by get_cognito_public_keys, the signature and the expiry,
\* audience and issuer checks passed against that key under RS256, and the
\* token_use claim equals the expected use.
C1_ClaimsOnlyAfterAllChecks ==
    (Verified /\ last.result.kind = "claims") =>
        /\ last.token.raw \notin {"", None}
        /\ ConfigComplete
        /\ \E k \in MatchingKeys : last.token.alg = "RS256" /\ last.token.sig = k.mat
        /\ (last.token.exp = NoTime \/ last.token.exp >= now - LEEWAY)
        /\ last.token.aud \in {Absent, COGNITO_APP_CLIENT_ID}
        /\ last.token.iss = IssuerOf(COGNITO_REGION, COGNITO_USER_POOL_ID)
        /\ last.token.token_use = last.token_use

\* C2: if one of the three configuration values is unset, every call of
\* verify_cognito_token with a non-empty token fails with the configuration
\* error, performs no key-set fetch and returns no claims.
C2_FailClosed ==
    (Verified /\ last.token.raw \notin {"", None} /\ ~ConfigComplete) =>
        /\ last.result.kind = "Configuration"
        /\ last.fetches = 0
        /\ last.result.claims = << >>

\* the answer of the JWKS endpoint during the last call, as far as it was used
LastResponse ==
    IF last.fetched # << >> THEN [kind |-> "ok", keys |-> last.fetched[1]] ELSE NoResponse
\* the outcome the last call would have had with token t in place of its token
Replay(t) ==
    verify_cognito_token(t, last.token_use, last.before, last.at, LastResponse, now).result.kind

\* C3: a token whose signature and standard claims are valid but whose
\* token_use differs from the expected use fails with the token-use-mismatch
\* error kind, classified (message and log severity) apart from unexpected
\* internal faults.
C3_TokenUseMismatchClassified ==
    (/\ Verified
     /\ last.decoded
     /\ Replay([last.token EXCEPT !.token_use = last.token_use]) = "claims"
     /\ last.token.token_use # last.token_use) =>
        /\ last.result.kind = "TokenUseMismatch"
        /\ last.result.log = "warning"

\* C4: a well-formed token whose header kid is the kid of no key of the key set
\* returned by get_cognito_public_keys fails with the unknown-key error, and
\* signature verification is not attempted.
C4_UnknownKey ==
    (/\ Verified
     /\ last.token.raw = "jwt"
     /\ last.token.kid # Absent
     /\ Len(last.keys) = 1
     /\ \A i \in 1..Len(last.keys[1]) : last.keys[1][i].kid # last.token.kid) =>
        /\ last.result.kind = "UnknownKey"
        /\ ~last.decoded
        /\ last.result.claims = << >>

\* C4 witness: a key set with keys was returned and none carries the token's kid
C4_Witness ==
    /\ Verified
    /\ last.token.kid = "kid-2"
    /\ last.keys = <<(<<KeyA>>)>>
    /\ last.result.kind = "UnknownKey"
    /\ ~last.decoded

\* C5: a token whose header names an algorithm other than RS256 is never
\* accepted; when it is valid in every other respect the call fails with the
\* signature-error kind.
C5_AlgorithmConfusionRejected ==
    (Verified /\ last.token.raw = "jwt" /\ last.token.alg # "RS256") =>
        /\ last.result.kind # "claims"
        /\ last.result.claims = << >>
        /\ (Replay([last.token EXCEPT !.alg = "RS256"]) = "claims"
               => last.result.kind = "InvalidToken")

\* C5 witness: an HS256 token, accepted if its header said RS256, is rejected
C5_Witness ==
    /\ Verified
    /\ last.token.alg = "HS256"
    /\ Replay([last.token EXCEPT !.alg = "RS256"]) = "claims"
    /\ last.result.kind = "InvalidToken"

\* the key the last call verified the signature against signed the token
SignatureValid ==
    /\ last.decoded
    /\ last.token.alg = "RS256"
    /\ \E k \in MatchingKeys : k.mat = last.token.sig
\* the token carries an audience claim that is not the configured client id
AudienceDiffers ==
    last.token.aud # Absent /\ last.token.aud # COGNITO_APP_CLIENT_ID

\* C6 as stated: every token whose signature is valid and whose audience claim
\* differs from the configured app client id fails with the claim-validation
\* error.
C6_AudienceMismatchAlwaysClaimError ==
    (Verified /\ SignatureValid /\ AudienceDiffers) =>
        /\ last.result.kind = "ClaimValidation"
        /\ last.result.claims = << >>

\* C6 amended: every token whose signature is valid, whose exp claim is absent
\* or not earlier than now - 60, and whose audience claim differs from the
\* configured app client id fails with the claim-validation error; and no token
\* whose signature is valid and whose audience claim differs returns claims.
C6_AudienceMismatch ==
    (Verified /\ SignatureValid /\ AudienceDiffers) =>
        /\ last.result.claims = << >>
        /\ (last.token.exp = NoTime \/ last.token.exp >= now - LEEWAY)
               => last.result.kind = "ClaimValidation"

\* C6 witness: a correctly signed, unexpired token for another client
C6_Witness ==
    /\ Verified
    /\ SignatureValid
    /\ last.token.aud = "client-other"
    /\ COGNITO_APP_CLIENT_ID = ClientId
    /\ last.token.exp >= now - LEEWAY
    /\ last.result.kind = "ClaimValidation"

\* C7: with leeway 60, an otherwise valid token fails with the expired-token
\* error when exp < now - 60, and passes the expiry check (the call returns its
\* claims) when now - 60 <= exp.
C7_ExpiryBoundary ==
    (/\ Verified
     /\ last.token.raw = "jwt"
     /\ last.token.exp # NoTime
     /\ Replay([last.token EXCEPT !.exp = BaseToken.exp]) = "claims") =>
        /\ (last.token.exp < now - LEEWAY => last.result.kind = "Expired")
        /\ (now - LEEWAY <= last.token.exp => last.result.kind = "claims")

\* C7 witness: a token expired by exactly the leeway is accepted
C7_Witness ==
    /\ Verified
    /\ last.token.exp = now - LEEWAY
    /\ last.result.kind = "claims"

\* C7, other side of the boundary: expired by one second more than the leeway
C7_WitnessExpired ==
    /\ Verified
    /\ last.token.exp = now - LEEWAY - 1
    /\ last.result.kind = "Expired"

\* C8: an empty or absent token fails with the empty-token error, no key-set
\* fetch is made and the key cache is left as it was, whatever the cache state
\* and the configuration.
C8_EmptyToken ==
    (Verified /\ last.token.raw \in {"", None}) =>
        /\ last.result.kind = "EmptyToken"
        /\ last.fetches = 0
        /\ jwks_cache = last.before
        /\ now = last.at

\* C8 witness: the empty string is submitted while the cached entry has expired
C8_Witness ==
    /\ Verified
    /\ last.token.raw = ""
    /\ FoundExpired
    /\ last.result.kind = "EmptyToken"

\* the time at which the entry the last call found had been stored
StoredAt == last.before[1].expires - TTL

\* C9: a key set fetched and stored at time t is returned, without a network
\* fetch, by every call made strictly before t + 3600.
C9_CacheReuse ==
    /\ Len(jwks_cache) <= 1
    /\ (last.op # "idle" /\ last.fetched # << >>) =>
           jwks_cache = <<[value |-> last.fetched[1], expires |-> now + TTL]>>
    /\ (Consulted /\ Len(last.before) = 1 /\ last.at < StoredAt + TTL) =>
           /\ last.fetches = 0
           /\ last.keys = <<last.before[1].value>>
           /\ jwks_cache = last.before

\* C9 witness: a verify call 3599 seconds after the store is served from the cache
C9_Witness ==
    /\ Verified
    /\ Len(last.before) = 1
    /\ last.at = last.before[1].expires - 1
    /\ last.fetches = 0
    /\ last.keys = <<last.before[1].value>>

\* C10: a key set whose age has reached 3600 seconds is never returned; the
\* first call after expiry makes exactly one fetch and, when the fetch succeeds,
\* stores its result as the single cache entry with the new timestamp and
\* returns the fetched key set.
C10_CacheExpiry ==
    (Consulted /\ FoundExpired) =>
        /\ ~last.hit
        /\ last.fetches = 1
        /\ last.keys = last.fetched
        /\ (last.fetched # << >> =>
               jwks_cache = <<[value |-> last.fetched[1], expires |-> now + TTL]>>)
        /\ (last.fetched = << >> => jwks_cache = last.before)

\* C10 witness: a call made exactly 3600 seconds after the store fetches a
\* different key set and returns it
C10_Witness ==
    /\ Consulted
    /\ Len(last.before) = 1
    /\ last.at = last.before[1].expires
    /\ last.fetches = 1
    /\ last.fetched # << >>
    /\ last.fetched[1] # last.before[1].value
    /\ last.keys = last.fetched
    /\ jwks_cache[1].value = last.fetched[1]

\* the cache holds no entry that a call made now or later would be served
NothingToServe == Len(jwks_cache) = 0 \/ now >= jwks_cache[1].expires
\* the last call found the cache empty
FoundEmpty == Len(last.before) = 0
\* the key set the last call found cached carries no key with the token's kid
CachedSetLacksKid ==
    /\ Len(last.before) = 1
    /\ \A i \in 1..Len(last.before[1].value) : last.before[1].value[i].kid # last.token.kid

\* C11: when the cache is empty or its entry has expired and the HTTP fetch
\* fails (network error or non-2xx response), the call fails with the key-fetch
\* error, no key set (stale or other) is returned, and nothing is stored: the
\* cache is as it was and holds nothing a later call would be served, so the
\* next call fetches again.
C11_FetchFailure ==
    (Consulted /\ (FoundEmpty \/ FoundExpired) /\ last.response = "RequestException") =>
        /\ last.result.kind = "KeyFetch"
        /\ last.fetches = 1
        /\ last.keys = << >>
        /\ last.result.claims = << >>
        /\ jwks_cache = last.before
        /\ NothingToServe

\* C11 witness: the fetch fails while an expired entry is in the cache
C11_Witness ==
    /\ Verified
    /\ FoundExpired
    /\ last.response = "RequestException"
    /\ last.result.kind = "KeyFetch"
    /\ jwks_cache = last.before

\* C12: when the endpoint answers 2xx with a body that lacks the "keys" list,
\* the call fails with the same key-fetch error kind as a network failure, and
\* nothing is cached.
C12_BodyWithoutKeys ==
    (Consulted /\ last.response = "NoKeysMember") =>
        /\ last.result.kind = "KeyFetch"
        /\ jwks_cache = last.before

\* C13: a valid token verified twice in a row with the clock unchanged succeeds
\* both times with identical claims, whether the first call filled the cache or
\* found it fresh.
C13_Idempotent ==
    (Verified /\ last.prev.kind = "claims" /\ now = last.at) =>
        /\ last.result.kind = "claims"
        /\ last.result.claims = last.prev.claims
        /\ last.fetches = 0

\* C13 witness: the repetition of a call that has just filled the cache
C13_Witness ==
    /\ Verified
    /\ last.prev.kind = "claims"
    /\ last.result = last.prev
    /\ last.hit
    /\ last.before[1].expires = now + TTL

\* C17: a token with an unparsable header or without a kid fails with the
\* malformed-token error whatever the cache state, triggers no key-set fetch
\* and is never reported as a key-fetch error.
C17_HeaderBeforeCache ==
    (/\ Verified
     /\ \/ last.token.raw = "garbage"
        \/ last.token.raw = "jwt" /\ last.token.kid = Absent) =>
        /\ last.result.kind \in {"MalformedHeader", "MissingKid"}
        /\ last.fetches = 0

\* C18: verify_cognito_token never returns claims for a token that carries no
\* audience claim.
C18_AudienceRequired ==
    (Verified /\ last.token.raw = "jwt" /\ last.token.aud = Absent) =>
        last.result.kind # "claims"

\* the ways a call of verify_cognito_token ends
ResultKinds ==
    {"claims", "EmptyToken", "Configuration", "KeyFetch", "KeyError", "MalformedHeader",
     "MissingKid", "UnknownKey", "Expired", "ClaimValidation", "InvalidToken", "Unexpected"}

\* C19: every call of verify_cognito_token ends with claims or with an error
\* after at most one key-set fetch; a kid miss neither clears the cache nor
\* fetches a second time.
C19_AtMostOneFetch ==
    Verified =>
        /\ last.result.kind \in ResultKinds
        /\ (last.result.kind = "claims") = (last.result.claims # << >>)
        /\ last.fetches <= 1
        /\ (last.hit => last.fetches = 0)
        /\ last.result.kind = "UnknownKey" =>
               /\ last.fetches = (IF last.hit THEN 0 ELSE 1)
               /\ jwks_cache = IF last.hit THEN last.before
                               ELSE <<[value |-> last.fetched[1], expires |-> now + TTL]>>

\* C19 witness: a call that fetched the key set and then missed the kid
C19_Witness ==
    /\ Verified
    /\ last.result.kind = "UnknownKey"
    /\ ~last.hit
    /\ last.fetches = 1
    /\ Len(jwks_cache) = 1

\* C20: while the cache holds an unexpired key set without kid K, every call for
\* a token with kid K fails with the unknown-key error, without a fetch and
\* with the cache unchanged, on every repetition; such a token is accepted only
\* by a call made once the cached entry has expired.
C20_RotationInsideTtl ==
    /\ (/\ Verified
        /\ last.token.raw = "jwt"
        /\ last.token.kid # Absent
        /\ CachedSetLacksKid
        /\ last.at < last.before[1].expires) =>
           /\ last.result.kind = "UnknownKey"
           /\ last.fetches = 0
           /\ jwks_cache = last.before
    /\ (Verified /\ last.result.kind = "claims" /\ CachedSetLacksKid) =>
           last.at >= last.before[1].expires
    /\ (Verified /\ last.prev.kind = "UnknownKey" /\ now = last.at) =>
           last.result.kind = "UnknownKey"

\* C20 witness: a token signed with the rotated-in key kid-2 fails again on
\* repetition, one second before the cached set expires
C20_Witness ==
    /\ Verified
    /\ last.token.kid = "kid-2"
    /\ last.token.sig = "rsa-2"
    /\ last.before = <<[value |-> <<KeyA>>, expires |-> now + 1]>>
    /\ last.prev.kind = "UnknownKey"
    /\ last.result.kind = "UnknownKey"
    /\ last.fetches = 0

\* C20, after expiry: the token is accepted by a call that refetches
C20_WitnessAccepted ==
    /\ Verified
    /\ CachedSetLacksKid
    /\ last.at >= last.before[1].expires
    /\ last.result.kind = "claims"

\* C14: when a request carries a non-empty x-amzn-oidc-accesstoken header, the
\* token handed to verify_cognito_token is that header's; the Authorization
\* header's Bearer token is used only when it is absent or empty. For both
\* dependency functions.
C14_OidcHeaderFirst ==
    http.called =>
        IF ~IsEmptyToken(http.oidc)
        THEN http.token = http.oidc
        ELSE http.scheme = "Bearer" /\ http.token = http.credentials

\* C15: every request whose verification fails is answered 401 and does not
\* reach the protected handler.
C15_UniformErrorMapping ==
    (http.called /\ last.result.kind # "claims") =>
        /\ http.status = 401
        /\ ~http.reached

\* C16: under every interleaving of lookup, fetch and store by concurrent
\* callers, the cache holds at most one entry, and the cached key set and every
\* key set handed to a caller is the complete result of one completed fetch.
C16_RaceKeepsEntryWhole ==
    /\ Len(jwks_cache) <= MAXSIZE
    /\ Len(jwks_cache) = 1 => jwks_cache[1].value \in callers.completed
    /\ \A p \in Callers :
        callers.proc[p].handed # << >> => callers.proc[p].handed[1] \in callers.completed

\* C16 witness: two callers overlapped a miss, fetched different key sets and
\* both stored; each holds its own fetch and the cache holds one of them
C16_Witness ==
    \E p, q \in Callers :
        /\ callers.proc[p].pc = "returned" /\ ~callers.proc[p].hit
        /\ callers.proc[q].pc = "returned" /\ ~callers.proc[q].hit
        /\ callers.proc[p].handed = <<(<<KeyA>>)>>
        /\ callers.proc[q].handed = <<(<<KeyB>>)>>
        /\ Len(jwks_cache) = 1

\* a step that is a call of verify_cognito_token
VerifyStep == last'.op = "verify"

\* C21: a call of verify_cognito_token that finds an unexpired cache entry
\* leaves the cached key set and its expiry unchanged whatever its outcome; no
\* step changes the pool id, the region, the app client id or the key-set URL;
\* a call changes the cache only by storing the key set it has just fetched.
C21_Frame ==
    [][/\ config' = config
       /\ JWKS_URL' = JWKS_URL
       /\ VerifyStep =>
           /\ (Len(jwks_cache) = 1 /\ now < jwks_cache[1].expires) => jwks_cache' = jwks_cache
           /\ jwks_cache' # jwks_cache =>
                  /\ last'.fetches = 1
                  /\ last'.response = "ok"
                  /\ jwks_cache' = <<[value |-> last'.fetched[1], expires |-> now' + TTL]>>]_vars

\* C21 witness: a call served from a fresh entry ended with the token-use
\* failure and the entry is as it was
C21_Witness ==
    /\ Verified
    /\ last.hit
    /\ last.decoded
    /\ last.token.token_use # last.token_use
    /\ last.result.kind = "Unexpected"
    /\ jwks_cache = last.before
    /\ now < jwks_cache[1].expires

\* C21 witness: a call after expiry replaced the entry by the key set it fetched
C21_WitnessStored ==
    /\ Verified
    /\ FoundExpired
    /\ last.fetches = 1
    /\ jwks_cache # last.before
    /\ jwks_cache = <<[value |-> last.fetched[1], expires |-> now + TTL]>>

====
